---- MODULE Spec2Model ----
(***************************************************************************)
(* topic_service: the offline build script (make_data.py) that turns a     *)
(* Wikipedia dump into a vocabulary, a bag-of-words corpus, a TF-IDF model *)
(* and an LDA model, and the HTTP service (service.py) that loads those    *)
(* artifacts once and answers GET / and POST /topic.                       *)
(*                                                                         *)
(* Texts are sequences of one-character strings, tokens are sequences of   *)
(* characters, file paths are sequences of string pieces whose             *)
(* concatenation is the path.  Weights are in thousandths (1000 = 1.0).    *)
(***************************************************************************)
EXTENDS Integers, Sequences, FiniteSets, TLC

(* ------------------------------------------------------------------ *)
(* Bounds of the model                                                *)
(* ------------------------------------------------------------------ *)

\* Longest dump, in runs of identical articles.
MaxGroups == 2

\* Requests the service accepts in one behaviour.
MaxRequests == 2

(* ------------------------------------------------------------------ *)
(* Characters and texts                                               *)
(* ------------------------------------------------------------------ *)

Letters == {"a", "b", "A", "B"}

\* str.lower() on one character.
LowerChar(c) == IF c = "A" THEN "a" ELSE IF c = "B" THEN "b" ELSE c

Lower(text) == [i \in 1..Len(text) |-> LowerChar(text[i])]

\* Code-point order of the characters that occur in tokens.
CharRank(c) ==
    CASE c = " " -> 0
      [] c = "/NN" -> 1
      [] c = "A" -> 2
      [] c = "B" -> 3
      [] c = "a" -> 4
      [] c = "b" -> 5
      [] OTHER -> 6

RECURSIVE StrLess(_, _)
\* s < t for Python strings.
StrLess(s, t) ==
    IF t = <<>> THEN FALSE
    ELSE IF s = <<>> THEN TRUE
    ELSE IF CharRank(Head(s)) # CharRank(Head(t)) THEN CharRank(Head(s)) < CharRank(Head(t))
    ELSE StrLess(Tail(s), Tail(t))

RECURSIVE SortedStrings(_)
\* sorted(S) for a finite set of strings.
SortedStrings(S) ==
    IF S = {} THEN <<>>
    ELSE LET m == CHOOSE x \in S : \A y \in S \ {x} : StrLess(x, y)
         IN  <<m>> \o SortedStrings(S \ {m})

Range(s) == {s[i] : i \in 1..Len(s)}

(* ------------------------------------------------------------------ *)
(* Tokenizers                                                         *)
(* ------------------------------------------------------------------ *)

RECURSIVE AlphabeticRuns(_, _, _, _)
\* PAT_ALPHABETIC.finditer: the maximal runs of non-digit word characters.
AlphabeticRuns(text, i, cur, acc) ==
    IF i > Len(text)
    THEN IF cur = <<>> THEN acc ELSE Append(acc, cur)
    ELSE IF text[i] \in Letters
         THEN AlphabeticRuns(text, i + 1, Append(cur, text[i]), acc)
         ELSE AlphabeticRuns(text, i + 1, <<>>, IF cur = <<>> THEN acc ELSE Append(acc, cur))

\* gensim.utils.simple_tokenize(text): the runs as they stand, case kept,
\* every length kept.
simple_tokenize(text) == AlphabeticRuns(text, 1, <<>>, <<>>)

\* WikiCorpus defaults: tokens shorter than 2 or longer than 15 are dropped.
token_min_len == 2
token_max_len == 15

KeepLength(tok) == token_min_len <= Len(tok) /\ Len(tok) <= token_max_len

\* The plain alphabetic tokenizer of WikiCorpus: lower-case the text, split
\* it, keep tokens of 2..15 characters.
wiki_tokenize(content) == SelectSeq(simple_tokenize(Lower(content)), KeepLength)

\* WikiCorpus(lemmatize=True) with the pattern package: every kept lemma is
\* tagged with its part of speech ("lemma/NN").  The sample words are their
\* own lemma.
wiki_lemmatize(content) ==
    LET toks == wiki_tokenize(content)
    IN  [i \in 1..Len(toks) |-> Append(toks[i], "/NN")]

\* The tokens WikiCorpus yields for an article of the dump.
WikiCorpusTokens(content, has_pattern) ==
    IF has_pattern THEN wiki_lemmatize(content) ELSE wiki_tokenize(content)

(* ------------------------------------------------------------------ *)
(* gensim.corpora.Dictionary                                          *)
(* ------------------------------------------------------------------ *)

EmptyFn == [x \in {} |-> 0]

\* A Dictionary: token2id, the document frequency of every id, and the
\* number of documents seen.
EmptyDictionary == [token2id |-> EmptyFn, dfs |-> EmptyFn, num_docs |-> 0]

\* Dictionary.doc2bow(tokens, allow_update=True) for `count` consecutive
\* articles with the same tokens: unseen tokens get the next ids in sorted
\* order, every distinct token's document frequency grows by one per article.
add_documents(d, tokens, count) ==
    LET seen    == DOMAIN d.token2id
        missing == SortedStrings(Range(tokens) \ seen)
        base    == Cardinality(seen)
        t2i     == [w \in seen \cup Range(tokens) |->
                      IF w \in seen THEN d.token2id[w]
                      ELSE base + (CHOOSE i \in 1..Len(missing) : missing[i] = w) - 1]
        hit     == {t2i[w] : w \in Range(tokens)}
        ids     == {t2i[w] : w \in DOMAIN t2i}
    IN  [token2id |-> t2i,
         dfs      |-> [i \in ids |->
                         (IF i \in DOMAIN d.dfs THEN d.dfs[i] ELSE 0)
                         + (IF i \in hit THEN count ELSE 0)],
         num_docs |-> d.num_docs + count]

RECURSIVE ScanDump(_, _, _)
\* Dictionary(wiki.get_texts()): one pass over the dump.
ScanDump(articles, has_pattern, d) ==
    IF articles = <<>> THEN d
    ELSE ScanDump(Tail(articles), has_pattern,
                  add_documents(d, WikiCorpusTokens(Head(articles).text, has_pattern),
                                Head(articles).count))

RECURSIVE SortedIds(_, _)
\* sorted(good_ids, key=dfs.get, reverse=True); the sort is stable, so ids
\* with equal frequency stay in id order.
SortedIds(S, dfs) ==
    IF S = {} THEN <<>>
    ELSE LET m == CHOOSE x \in S : \A y \in S \ {x} :
                      dfs[x] > dfs[y] \/ (dfs[x] = dfs[y] /\ x < y)
         IN  <<m>> \o SortedIds(S \ {m}, dfs)

\* Dictionary.filter_extremes(no_below, no_above, keep_n), with no_above given
\* in percent: keep the ids with no_below <= df <= int(no_above * num_docs),
\* of those the keep_n most frequent, then compactify() the surviving ids to
\* 0..n-1 in their old order.
filter_extremes(d, nb, na_percent, keep_n) ==
    LET no_above_abs == (na_percent * d.num_docs) \div 100
        ids    == {d.token2id[w] : w \in DOMAIN d.token2id}
        good   == {i \in ids : nb <= d.dfs[i] /\ d.dfs[i] <= no_above_abs}
        sorted == SortedIds(good, d.dfs)
        kept   == {sorted[k] : k \in 1..(IF keep_n < Len(sorted) THEN keep_n ELSE Len(sorted))}
        newid(i) == Cardinality({j \in kept : j < i})
        words  == {w \in DOMAIN d.token2id : d.token2id[w] \in kept}
    IN  [token2id |-> [w \in words |-> newid(d.token2id[w])],
         dfs      |-> [n \in {newid(i) : i \in kept} |->
                         d.dfs[CHOOSE i \in kept : newid(i) = n]],
         num_docs |-> d.num_docs]

\* Occurrences of tok in tokens.
CountOf(tokens, tok) == Cardinality({i \in 1..Len(tokens) : tokens[i] = tok})

RECURSIVE BowOfIds(_, _, _)
BowOfIds(S, tokens, t2i) ==
    IF S = {} THEN <<>>
    ELSE LET m == CHOOSE x \in S : \A y \in S : x <= y
             w == CHOOSE x \in DOMAIN t2i : t2i[x] = m
         IN  <<(<<m, CountOf(tokens, w)>>)>> \o BowOfIds(S \ {m}, tokens, t2i)

\* Dictionary.doc2bow(tokens), allow_update=False: (id, count) for every
\* distinct token the dictionary knows, sorted by id; unknown tokens are
\* dropped and the dictionary is left as it is.
doc2bow(t2i, tokens) ==
    BowOfIds({t2i[w] : w \in Range(tokens) \cap DOMAIN t2i}, tokens, t2i)

\* Dictionary.save_as_text(fname): the number of documents, then one row
\* (id, word, document frequency) per token, sorted by word.
save_as_text(d) ==
    LET ws == SortedStrings(DOMAIN d.token2id)
    IN  [num_docs |-> d.num_docs,
         rows     |-> [k \in 1..Len(ws) |-> <<d.token2id[ws[k]], ws[k], d.dfs[d.token2id[ws[k]]]>>]]

\* Dictionary.load_from_text(fname): every row gives token2id[word] = id and
\* dfs[id] = document frequency.
load_from_text(f) ==
    LET RowOf(w) == f.rows[CHOOSE k \in 1..Len(f.rows) : f.rows[k][2] = w]
        RowAt(i) == f.rows[CHOOSE k \in 1..Len(f.rows) : f.rows[k][1] = i]
    IN  [token2id |-> [w \in {f.rows[k][2] : k \in 1..Len(f.rows)} |-> RowOf(w)[1]],
         dfs      |-> [i \in {f.rows[k][1] : k \in 1..Len(f.rows)} |-> RowAt(i)[3]],
         num_docs |-> f.num_docs]

(* ------------------------------------------------------------------ *)
(* Paths and files                                                    *)
(* ------------------------------------------------------------------ *)

\* os.path.dirname(path): what stands before the last "/", "" without one.
dirname(path) ==
    LET slashes == {i \in 1..Len(path) : path[i] = "/"}
    IN  IF slashes = {} THEN <<>>
        ELSE SubSeq(path, 1, (CHOOSE i \in slashes : \A j \in slashes : j <= i) - 1)

\* The directories that exist when the script starts.
Directories == {<<"out">>}

\* os.path.isdir(path); os.path.isdir("") is False.
isdir(path) == path \in Directories

\* str.startswith
StartsWith(path, prefix) ==
    Len(prefix) <= Len(path) /\ SubSeq(path, 1, Len(prefix)) = prefix

NoPath == <<>>

Partial == [state |-> "partial", content |-> "none"]

Complete(content) == [state |-> "complete", content |-> content]

\* The file system with file `path` set to `file`.
Put(files, path, file) ==
    [p \in DOMAIN files \cup {path} |-> IF p = path THEN file ELSE files[p]]

IsComplete(files, path) == path \in DOMAIN files /\ files[path].state = "complete"

(* ------------------------------------------------------------------ *)
(* make_data.py                                                       *)
(* ------------------------------------------------------------------ *)

DEFAULT_DICT_SIZE == 100000

\* filter_extremes(no_below=20, no_above=0.1, ...)
no_below == 20
no_above_percent == 10

\* LdaModel(..., num_topics=1000, ...)
num_topics == 1000

\* The articles of a dump, as runs of `count` articles with the same text.
DumpTexts == { <<"a", "b", " ", "B", "a">>, <<"b", "a">>, <<"b", "b", " ", "a">> }
GroupSizes == {1, 20, 200}
Groups == [text : DumpTexts, count : GroupSizes]

RECURSIVE SeqsUpTo(_, _)
\* The sequences over S of at most n elements.
SeqsUpTo(S, n) ==
    IF n = 0 THEN {<<>>}
    ELSE LET shorter == SeqsUpTo(S, n - 1)
         IN  shorter \cup {Append(s, x) : s \in shorter, x \in S}

\* A dump whose surviving words get their ids against alphabetical order:
\* "ba" is met before "ab".
ReversedOrderDump ==
    << [text |-> <<"b", "a">>, count |-> 1],
       [text |-> <<"a", "b", " ", "B", "a">>, count |-> 20],
       [text |-> <<"b", "b", " ", "a">>, count |-> 200] >>

Dumps == SeqsUpTo(Groups, MaxGroups) \cup {ReversedOrderDump}

\* Output prefixes: a prefix in an existing directory, one in a missing
\* directory, one naming a file in the current directory.
Prefixes == { <<"out", "/", "wiki">>, <<"nodir", "/", "wiki">>, <<"wiki">> }

\* sys.argv, the optional VOCABULARY_SIZE already a number.
Argvs ==
    { <<"make_data.py">>, <<"make_data.py", "dump.xml.bz2">> }
    \cup { <<"make_data.py", "dump.xml.bz2", p>> : p \in Prefixes }
    \cup { <<"make_data.py", "dump.xml.bz2", p, 1>> : p \in Prefixes }

VARIABLES
    argv,         \* sys.argv
    dump,         \* the articles of the dump WikiCorpus keeps
    has_pattern,  \* whether the pattern package is installed
    pc,           \* where the script stands
    exit_code,    \* -1 while it runs
    console,      \* what it printed: "", "usage" or "error"
    keep_words,
    wiki,         \* the WikiCorpus: [dictionary, metadata], or NoObject
    docmap,       \* number of titles collected
    dictionary,   \* the Dictionary read back from the vocabulary file
    mm,           \* the bag-of-words corpus read back
    tfidf,
    lda,          \* the trained LdaModel
    open_file,    \* the path being written, NoPath when none is
    fs,           \* path -> [state, content]
    process,      \* the service process: "down", "up" or "failed"
    TopicService, \* its class attributes: [id2word, corpus, lda]
    requests      \* the requests accepted so far, in order of arrival

buildVars == <<argv, dump, has_pattern, pc, exit_code, console, keep_words, wiki,
               docmap, dictionary, mm, tfidf, lda, open_file, fs>>

vars == <<argv, dump, has_pattern, pc, exit_code, console, keep_words, wiki,
          docmap, dictionary, mm, tfidf, lda, open_file, fs,
          process, TopicService, requests>>

serviceVars == <<process, TopicService, requests>>

NoObject == [none |-> TRUE]

StoppedPcs == {"done", "exited", "failed", "killed"}

inp == argv[2]
outp == argv[3]

\* The tokens of every run of articles, as wiki.get_texts() yields them.
get_texts == [k \in 1..Len(dump) |-> WikiCorpusTokens(dump[k].text, has_pattern)]

RECURSIVE SumCounts(_)
SumCounts(articles) ==
    IF articles = <<>> THEN 0 ELSE Head(articles).count + SumCounts(Tail(articles))

\* One step of an output stage: the file is created under `path` and is
\* partial while it is written, and complete once it is closed; then the
\* script goes on at `next`.
WriteFile(path, content, next) ==
    \/ /\ open_file = NoPath
       /\ open_file' = path
       /\ fs' = Put(fs, path, Partial)
       /\ pc' = pc
    \/ /\ open_file = path
       /\ open_file' = NoPath
       /\ fs' = Put(fs, path, Complete(content))
       /\ pc' = next

\* Lines 68-80: the arguments.
CheckArgs ==
    /\ pc = "check_args"
    /\ IF Len(argv) < 3
       THEN /\ console' = "usage"
            /\ exit_code' = 1
            /\ pc' = "exited"
            /\ UNCHANGED keep_words
       ELSE IF ~isdir(dirname(outp))
       THEN /\ console' = "error"
            /\ exit_code' = 1
            /\ pc' = "exited"
            /\ UNCHANGED keep_words
       ELSE /\ keep_words' = IF Len(argv) > 3 THEN argv[4] ELSE DEFAULT_DICT_SIZE
            /\ pc' = "open_corpus"
            /\ UNCHANGED <<console, exit_code>>
    /\ UNCHANGED <<argv, dump, has_pattern, wiki, docmap, dictionary, mm, tfidf, lda,
                   open_file, fs, serviceVars>>

\* Lines 82-83: WikiCorpus(inp, lemmatize=True) scans the dump and builds its
\* dictionary.
OpenCorpus ==
    /\ pc = "open_corpus"
    /\ wiki' = [dictionary |-> ScanDump(dump, has_pattern, EmptyDictionary), metadata |-> TRUE]
    /\ pc' = "filter"
    /\ UNCHANGED <<argv, dump, has_pattern, exit_code, console, keep_words, docmap,
                   dictionary, mm, tfidf, lda, open_file, fs, serviceVars>>

\* Line 86.
FilterExtremes ==
    /\ pc = "filter"
    /\ wiki' = [wiki EXCEPT !.dictionary =
                    filter_extremes(wiki.dictionary, no_below, no_above_percent, DEFAULT_DICT_SIZE)]
    /\ pc' = "scan_titles"
    /\ UNCHANGED <<argv, dump, has_pattern, exit_code, console, keep_words, docmap,
                   dictionary, mm, tfidf, lda, open_file, fs, serviceVars>>

\* Lines 90-92: one title per article.
ScanTitles ==
    /\ pc = "scan_titles"
    /\ docmap' = SumCounts(dump)
    /\ pc' = "dump_docmap"
    /\ UNCHANGED <<argv, dump, has_pattern, exit_code, console, keep_words, wiki,
                   dictionary, mm, tfidf, lda, open_file, fs, serviceVars>>

\* Lines 93-94.
DumpDocmap ==
    /\ pc = "dump_docmap"
    /\ WriteFile(<<"doc_index.pickle.bz2">>, [titles |-> docmap], "serialize_bow")
    /\ UNCHANGED <<argv, dump, has_pattern, exit_code, console, keep_words, wiki, docmap,
                   dictionary, mm, tfidf, lda, serviceVars>>

\* The encoding pass with allow_update=True: it would add the tokens the
\* filter removed back to the dictionary.
bow_of_article_allow_update(d, tokens) ==
    LET grown == add_documents(d, tokens, 1)
    IN  [dictionary |-> grown, bow |-> doc2bow(grown.token2id, tokens)]

\* TextCorpus.__iter__: self.dictionary.doc2bow(text, allow_update=False).
bow_of_article(d, tokens) ==
    [dictionary |-> d, bow |-> doc2bow(d.token2id, tokens)]

RECURSIVE EncodeCorpus(_, _, _, _)
\* Iterating the WikiCorpus: every article encoded with wiki.dictionary as
\* it stands when the article is reached.
EncodeCorpus(d, texts, k, docs) ==
    IF k > Len(texts) THEN [dictionary |-> d, docs |-> docs]
    ELSE LET e == bow_of_article(d, texts[k])
         IN  EncodeCorpus(e.dictionary, texts, k + 1,
                          Append(docs, [bow |-> e.bow, count |-> dump[k].count]))

BowPath == outp \o <<"_bow.mm">>
WordidsPath == outp \o <<"_wordids.txt.bz2">>
LdaPath == outp \o <<"_lda.model">>

\* Line 97: MmCorpus.serialize streams the encoded articles to the corpus
\* file, then pickles the titles, then the offsets of the documents.
SerializeBow ==
    /\ pc = "serialize_bow"
    /\ LET enc == EncodeCorpus(wiki.dictionary, get_texts, 1, <<>>)
       IN  /\ WriteFile(BowPath, [num_docs |-> SumCounts(dump), docs |-> enc.docs],
                        "serialize_bow_meta")
           /\ wiki' = IF open_file = BowPath
                      THEN [wiki EXCEPT !.dictionary = enc.dictionary] ELSE wiki
    /\ UNCHANGED <<argv, dump, has_pattern, exit_code, console, keep_words, docmap,
                   dictionary, mm, tfidf, lda, serviceVars>>

SerializeBowMetadata ==
    /\ pc = "serialize_bow_meta"
    /\ WriteFile(BowPath \o <<".metadata.cpickle">>, [titles |-> SumCounts(dump)],
                 "serialize_bow_index")
    /\ UNCHANGED <<argv, dump, has_pattern, exit_code, console, keep_words, wiki, docmap,
                   dictionary, mm, tfidf, lda, serviceVars>>

SerializeBowIndex ==
    /\ pc = "serialize_bow_index"
    /\ WriteFile(BowPath \o <<".index">>, [offsets |-> Len(dump)], "save_dict")
    /\ UNCHANGED <<argv, dump, has_pattern, exit_code, console, keep_words, wiki, docmap,
                   dictionary, mm, tfidf, lda, serviceVars>>

\* Line 98.
SaveDictionary ==
    /\ pc = "save_dict"
    /\ WriteFile(WordidsPath, save_as_text(wiki.dictionary), "load_dict")
    /\ UNCHANGED <<argv, dump, has_pattern, exit_code, console, keep_words, wiki, docmap,
                   dictionary, mm, tfidf, lda, serviceVars>>

\* Line 102.
LoadDictionary ==
    /\ pc = "load_dict"
    /\ dictionary' = load_from_text(fs[WordidsPath].content)
    /\ pc' = "save_wiki"
    /\ UNCHANGED <<argv, dump, has_pattern, exit_code, console, keep_words, wiki, docmap,
                   mm, tfidf, lda, open_file, fs, serviceVars>>

\* Lines 103-104: wiki.save(...), then del wiki.
SaveWiki ==
    /\ pc = "save_wiki"
    /\ WriteFile(outp \o <<"_corpus.pkl.bz2">>, wiki, "open_mm")
    /\ wiki' = IF open_file = NoPath THEN wiki ELSE NoObject
    /\ UNCHANGED <<argv, dump, has_pattern, exit_code, console, keep_words, docmap,
                   dictionary, mm, tfidf, lda, serviceVars>>

\* Line 107.
OpenMm ==
    /\ pc = "open_mm"
    /\ mm' = fs[BowPath].content
    /\ pc' = "fit_tfidf"
    /\ UNCHANGED <<argv, dump, has_pattern, exit_code, console, keep_words, wiki, docmap,
                   dictionary, tfidf, lda, open_file, fs, serviceVars>>

\* Line 110.
FitTfidf ==
    /\ pc = "fit_tfidf"
    /\ tfidf' = [id2word |-> dictionary.token2id, num_docs |-> mm.num_docs, normalize |-> TRUE]
    /\ pc' = "save_tfidf"
    /\ UNCHANGED <<argv, dump, has_pattern, exit_code, console, keep_words, wiki, docmap,
                   dictionary, mm, lda, open_file, fs, serviceVars>>

\* Line 111.
SaveTfidf ==
    /\ pc = "save_tfidf"
    /\ WriteFile(outp \o <<".tfidf_model">>, tfidf, "serialize_tfidf")
    /\ UNCHANGED <<argv, dump, has_pattern, exit_code, console, keep_words, wiki, docmap,
                   dictionary, mm, tfidf, lda, serviceVars>>

\* Line 114: the TF-IDF vectors, then their offsets.
SerializeTfidf ==
    /\ pc = "serialize_tfidf"
    /\ WriteFile(outp \o <<"_tfidf.mm">>, [num_docs |-> mm.num_docs, weighted_by |-> tfidf],
                 "serialize_tfidf_index")
    /\ UNCHANGED <<argv, dump, has_pattern, exit_code, console, keep_words, wiki, docmap,
                   dictionary, mm, tfidf, lda, serviceVars>>

SerializeTfidfIndex ==
    /\ pc = "serialize_tfidf_index"
    /\ WriteFile(outp \o <<"_tfidf.mm", ".index">>, [offsets |-> Len(mm.docs)], "fit_lda")
    /\ UNCHANGED <<argv, dump, has_pattern, exit_code, console, keep_words, wiki, docmap,
                   dictionary, mm, tfidf, lda, serviceVars>>

\* The topics that carry weight in a trained model, out of 0..num_topics-1.
TrainedTopicIds == {0, 7}

\* Lines 117-118: LdaModel(corpus=mm, id2word=dictionary, num_topics=1000, ...)
\* raises ValueError over an empty vocabulary.  Training is randomised: what
\* is kept of its outcome is the topic every term loads on.
FitLda ==
    /\ pc = "fit_lda"
    /\ IF DOMAIN dictionary.token2id = {}
       THEN /\ pc' = "failed"
            /\ exit_code' = 1
            /\ console' = "error"
            /\ lda' = lda
       ELSE /\ pc' = "save_lda_state"
            /\ \E tt \in [{dictionary.token2id[w] : w \in DOMAIN dictionary.token2id}
                            -> TrainedTopicIds] :
                 lda' = [id2word |-> dictionary.token2id, num_topics |-> num_topics,
                         term_topic |-> tt, random_state |-> 0]
            /\ UNCHANGED <<exit_code, console>>
    /\ UNCHANGED <<argv, dump, has_pattern, keep_words, wiki, docmap, dictionary, mm, tfidf,
                   open_file, fs, serviceVars>>

\* Line 119: LdaModel.save writes the state, the id2word mapping and then
\* the model itself.
SaveLdaState ==
    /\ pc = "save_lda_state"
    /\ WriteFile(LdaPath \o <<".state">>, [num_topics |-> lda.num_topics], "save_lda_id2word")
    /\ UNCHANGED <<argv, dump, has_pattern, exit_code, console, keep_words, wiki, docmap,
                   dictionary, mm, tfidf, lda, serviceVars>>

SaveLdaId2word ==
    /\ pc = "save_lda_id2word"
    /\ WriteFile(LdaPath \o <<".id2word">>, lda.id2word, "save_lda")
    /\ UNCHANGED <<argv, dump, has_pattern, exit_code, console, keep_words, wiki, docmap,
                   dictionary, mm, tfidf, lda, serviceVars>>

SaveLda ==
    /\ pc = "save_lda"
    /\ WriteFile(LdaPath, lda, "build_index")
    /\ UNCHANGED <<argv, dump, has_pattern, exit_code, console, keep_words, wiki, docmap,
                   dictionary, mm, tfidf, lda, serviceVars>>

\* Lines 122-123: Similarity("wiki_index", ...) keeps its shards under the
\* prefix "wiki_index"; index.save closes the open shard (written when the
\* corpus has documents), then pickles the index.
SaveIndexShard ==
    /\ pc = "build_index"
    /\ IF mm.num_docs > 0
       THEN WriteFile(<<"wiki_index", ".0">>, [shard |-> mm.num_docs], "save_index")
       ELSE pc' = "save_index" /\ UNCHANGED <<open_file, fs>>
    /\ UNCHANGED <<argv, dump, has_pattern, exit_code, console, keep_words, wiki, docmap,
                   dictionary, mm, tfidf, lda, serviceVars>>

SaveIndex ==
    /\ pc = "save_index"
    /\ WriteFile(outp \o <<"_index.index">>, [num_features |-> lda.num_topics], "finish")
    /\ UNCHANGED <<argv, dump, has_pattern, exit_code, console, keep_words, wiki, docmap,
                   dictionary, mm, tfidf, lda, serviceVars>>

\* Line 125.
Finish ==
    /\ pc = "finish"
    /\ pc' = "done"
    /\ exit_code' = 0
    /\ UNCHANGED <<argv, dump, has_pattern, console, keep_words, wiki, docmap,
                   dictionary, mm, tfidf, lda, open_file, fs, serviceVars>>

\* The script is killed where it stands; a file it was writing stays as it is.
Interrupt ==
    /\ pc \notin StoppedPcs
    /\ pc' = "killed"
    /\ exit_code' = 137
    /\ UNCHANGED <<argv, dump, has_pattern, console, keep_words, wiki, docmap,
                   dictionary, mm, tfidf, lda, open_file, fs, serviceVars>>

(* ------------------------------------------------------------------ *)
(* service.py                                                         *)
(* ------------------------------------------------------------------ *)

\* Lines 12-14: the environment names the artifacts of the build.
WORDLIST_FILE == WordidsPath
CORPUS_FILE == BowPath
LDA_FILE == LdaPath

\* LdaModel.load(fname): the model, with its state and id2word read from
\* the files beside it.
LdaModel_load(files, fname) ==
    [files[fname].content EXCEPT !.id2word = files[fname \o <<".id2word">>].content]

\* Lines 35-37: the class body loads the three artifacts when the module is
\* imported.  A file that is missing or cut short makes the import raise,
\* and the process does not start.
ServiceLoad ==
    /\ process = "down"
    /\ Len(argv) >= 3
    /\ IF \A p \in {WORDLIST_FILE, CORPUS_FILE, LDA_FILE,
                    LDA_FILE \o <<".state">>, LDA_FILE \o <<".id2word">>} : IsComplete(fs, p)
       THEN /\ process' = "up"
            /\ TopicService' = [id2word |-> load_from_text(fs[WORDLIST_FILE].content),
                                corpus  |-> fs[CORPUS_FILE].content,
                                lda     |-> LdaModel_load(fs, LDA_FILE)]
       ELSE /\ process' = "failed"
            /\ TopicService' = TopicService
    /\ UNCHANGED <<buildVars, requests>>

\* LdaModel.__getitem__ keeps the topics of weight at least
\* minimum_probability = 0.01.
minimum_probability == 10

\* self.random_state.gamma(...): the next draw of the model's generator;
\* successive draws differ.
RandomGamma(state) == state % 2

RECURSIVE SumBow(_)
SumBow(bow) == IF bow = <<>> THEN 0 ELSE Head(bow)[2] + SumBow(Tail(bow))

RECURSIVE IdsAscending(_)
IdsAscending(S) ==
    IF S = {} THEN <<>>
    ELSE LET m == CHOOSE x \in S : \A y \in S : x <= y
         IN  <<m>> \o IdsAscending(S \ {m})

\* The weight variational inference gives topic t for a document: the
\* share of the document's words that load on t, next to a prior of
\* 1/num_topics, moved by the random start of the iteration.
TopicWeight(l, bow, t) ==
    LET on_t == SelectSeq(bow, LAMBDA e : l.term_topic[e[1]] = t)
    IN  IF SumBow(on_t) = 0
        THEN (1000 \div l.num_topics) \div (SumBow(bow) + 1)
        ELSE (1000 * SumBow(on_t)) \div (SumBow(bow) + 1) + RandomGamma(l.random_state)

\* lda[bow]: the topics of weight >= minimum_probability in topic order,
\* as (topic_id, weight); the draw advances the model's random_state.  The
\* topics no word of the document loads on all have the weight of the prior.
lda_getitem(l, bow) ==
    LET loaded == {l.term_topic[bow[k][1]] : k \in 1..Len(bow)}
        others == (0..(l.num_topics - 1)) \ loaded
        prior  == (1000 \div l.num_topics) \div (SumBow(bow) + 1)
        kept   == {t \in loaded : TopicWeight(l, bow, t) >= minimum_probability}
                  \cup (IF prior >= minimum_probability THEN others ELSE {})
        ids    == IdsAscending(kept)
    IN  [doc_lda |-> [k \in 1..Len(ids) |-> <<ids[k], TopicWeight(l, bow, ids[k])>>],
         lda     |-> [l EXCEPT !.random_state = @ + 1]]

\* lda.show_topic(topic_id): (word, weight) for the top words of the topic,
\* the terms that load on it first.
show_topic(l, t) ==
    LET ids   == {l.id2word[w] : w \in DOMAIN l.id2word}
        on_t  == {i \in ids : l.term_topic[i] = t}
        order == IdsAscending(on_t) \o IdsAscending(ids \ on_t)
        word(i) == CHOOSE w \in DOMAIN l.id2word : l.id2word[w] = i
    IN  [k \in 1..Len(order) |->
            <<word(order[k]),
              IF order[k] \in on_t THEN 1000 \div Cardinality(on_t) ELSE 0>>]

RECURSIVE InsertByWeight(_, _)
\* e placed after every entry of weight >= its own.
InsertByWeight(sorted, e) ==
    IF sorted = <<>> THEN <<e>>
    ELSE IF Head(sorted)[2] >= e[2] THEN <<Head(sorted)>> \o InsertByWeight(Tail(sorted), e)
    ELSE <<e>> \o sorted

RECURSIVE StableSortDesc(_, _)
StableSortDesc(todo, done) ==
    IF todo = <<>> THEN done
    ELSE StableSortDesc(Tail(todo), InsertByWeight(done, Head(todo)))

\* The topics left in the order inference returned them.
sorted_topics_unsorted(doc_lda) == doc_lda

\* Line 66: sorted(doc_lda, key=lambda x: x[1], reverse=True).
sorted_topics(doc_lda) == StableSortDesc(doc_lda, <<>>)

\* Line 67.
topic_data(l, topics) ==
    [k \in 1..Len(topics) |-> <<topics[k][1], topics[k][2], show_topic(l, topics[k][1])>>]

JsonString(chars) == [type |-> "string", chars |-> chars]
JsonNull == [type |-> "null", chars |-> <<>>]

\* data.get("text"): no default, None when the key is missing.
text_of_no_default(data) == IF "text" \in DOMAIN data THEN data["text"] ELSE JsonNull

\* Line 57: data.get("text", "").
text_of(data) == IF "text" \in DOMAIN data THEN data["text"] ELSE JsonString(<<>>)

\* What the handler leaves when it raises: nothing in it catches the
\* exception, and the framework answers 500 Internal Server Error.
Raised(ts, exception) ==
    [raised |-> exception, text |-> JsonNull, doc |-> <<>>, bow |-> <<>>, doc_lda |-> <<>>,
     lda |-> ts.lda, response |-> [status |-> 500, data |-> <<>>]]

\* Lines 55-69: TopicService.topic from `await request.json()` on.  The
\* body is a JSON object (a function of its keys), a JSON array, or text that
\* is not JSON.
topic(ts, body) ==
    IF body.json = "malformed" THEN Raised(ts, "JSONDecodeError")
    ELSE IF body.json = "array" THEN Raised(ts, "AttributeError")
    ELSE LET text == text_of(body.object)
         IN  IF text.type # "string" THEN Raised(ts, "TypeError")
             ELSE LET doc   == simple_tokenize(text.chars)
                      bow   == doc2bow(ts.id2word.token2id, doc)
                      inf   == lda_getitem(ts.lda, bow)
                  IN  [raised |-> "", text |-> text, doc |-> doc, bow |-> bow,
                       doc_lda |-> inf.doc_lda, lda |-> inf.lda,
                       response |-> [status |-> 200,
                                     data |-> topic_data(ts.lda, sorted_topics(inf.doc_lda))]]

RequestTexts ==
    { <<>>, <<"a", "b">>, <<"B", "a">>, <<"a", " ", "b", "a">>,
      <<"b", "a", " ", "b", "a", " ", "a", "b">> }

Bodies ==
    { [json |-> "malformed", object |-> EmptyFn],
      [json |-> "array", object |-> EmptyFn],
      [json |-> "object", object |-> EmptyFn],
      [json |-> "object", object |-> [k \in {"text"} |-> JsonNull]] }
    \cup { [json |-> "object", object |-> [k \in {"text"} |-> JsonString(t)]] : t \in RequestTexts }

NoResult == [raised |-> "", text |-> JsonNull, doc |-> <<>>, bow |-> <<>>, doc_lda |-> <<>>,
             lda |-> NoObject, response |-> [status |-> 0, data |-> <<>>]]

\* POST /topic arrives: the handler starts and waits for the body at line 56.
AcceptTopic ==
    /\ process = "up"
    /\ Len(requests) < MaxRequests
    /\ \E body \in Bodies :
         requests' = Append(requests, [method |-> "POST", body |-> body,
                                       stage |-> "reading", result |-> NoResult])
    /\ UNCHANGED <<buildVars, process, TopicService>>

\* The body is read: the rest of the handler runs without another await.
Topic ==
    /\ process = "up"
    /\ \E i \in 1..Len(requests) :
         /\ requests[i].stage = "reading"
         /\ LET r == topic(TopicService, requests[i].body)
            IN  /\ requests' = [requests EXCEPT ![i].stage = "done", ![i].result = r]
                /\ TopicService' = [TopicService EXCEPT !.lda = r.lda]
    /\ UNCHANGED <<buildVars, process>>

\* Lines 50-52: GET / answers "topic".
Index ==
    /\ process = "up"
    /\ Len(requests) < MaxRequests
    /\ requests' = Append(requests, [method |-> "GET", body |-> [json |-> "none", object |-> EmptyFn],
                                     stage |-> "done",
                                     result |-> [NoResult EXCEPT !.response =
                                                    [status |-> 200, data |-> "topic"]]])
    /\ UNCHANGED <<buildVars, process, TopicService>>

(* ------------------------------------------------------------------ *)
(* The build, from the command line to its end                        *)
(* ------------------------------------------------------------------ *)

InitBuild ==
    /\ argv \in Argvs
    /\ dump \in Dumps
    /\ has_pattern \in BOOLEAN
    /\ pc = "check_args"
    /\ exit_code = -1
    /\ console = ""
    /\ keep_words = 0
    /\ wiki = NoObject
    /\ docmap = 0
    /\ dictionary = NoObject
    /\ mm = NoObject
    /\ tfidf = NoObject
    /\ lda = NoObject
    /\ open_file = NoPath
    /\ fs = EmptyFn
    /\ process = "down"
    /\ TopicService = NoObject
    /\ requests = <<>>

NextBuild ==
    \/ CheckArgs
    \/ OpenCorpus
    \/ FilterExtremes
    \/ ScanTitles
    \/ DumpDocmap
    \/ SerializeBow
    \/ SerializeBowMetadata
    \/ SerializeBowIndex
    \/ SaveDictionary
    \/ LoadDictionary
    \/ SaveWiki
    \/ OpenMm
    \/ FitTfidf
    \/ SaveTfidf
    \/ SerializeTfidf
    \/ SerializeTfidfIndex
    \/ FitLda
    \/ SaveLdaState
    \/ SaveLdaId2word
    \/ SaveLda
    \/ SaveIndexShard
    \/ SaveIndex
    \/ Finish
    \/ Interrupt
    \/ ServiceLoad

SpecBuild == InitBuild /\ [][NextBuild]_vars

(* ------------------------------------------------------------------ *)
(* The service, on a host that holds the artifacts of a finished build *)
(* ------------------------------------------------------------------ *)

ServiceDumps ==
    { << [text |-> <<"a", "b", " ", "B", "a">>, count |-> 20],
         [text |-> <<"b", "b", " ", "a">>, count |-> 200] >>,
      << [text |-> <<"b", "a">>, count |-> 20],
         [text |-> <<"b", "b", " ", "a">>, count |-> 200] >> }

InitService ==
    /\ argv = <<"make_data.py", "dump.xml.bz2", <<"out", "/", "wiki">> >>
    /\ dump \in ServiceDumps
    /\ has_pattern \in BOOLEAN
    /\ pc = "done"
    /\ exit_code = 0
    /\ console = ""
    /\ keep_words = DEFAULT_DICT_SIZE
    /\ wiki = NoObject
    /\ docmap = SumCounts(dump)
    /\ dictionary = load_from_text(save_as_text(
                       filter_extremes(ScanDump(dump, has_pattern, EmptyDictionary),
                                       no_below, no_above_percent, DEFAULT_DICT_SIZE)))
    /\ mm = [num_docs |-> SumCounts(dump),
             docs |-> EncodeCorpus(dictionary, get_texts, 1, <<>>).docs]
    /\ tfidf = [id2word |-> dictionary.token2id, num_docs |-> mm.num_docs, normalize |-> TRUE]
    /\ \E tt \in [{dictionary.token2id[w] : w \in DOMAIN dictionary.token2id} -> TrainedTopicIds] :
         lda = [id2word |-> dictionary.token2id, num_topics |-> num_topics,
                term_topic |-> tt, random_state |-> 0]
    /\ open_file = NoPath
    /\ fs = [p \in {WORDLIST_FILE, CORPUS_FILE, LDA_FILE,
                   LDA_FILE \o <<".state">>, LDA_FILE \o <<".id2word">>} |->
               Complete(CASE p = WORDLIST_FILE -> save_as_text(dictionary)
                          [] p = CORPUS_FILE -> mm
                          [] p = LDA_FILE -> lda
                          [] p = LDA_FILE \o <<".state">> -> [num_topics |-> lda.num_topics]
                          [] OTHER -> lda.id2word)]
    /\ process = "down"
    /\ TopicService = NoObject
    /\ requests = <<>>

NextService ==
    \/ ServiceLoad
    \/ AcceptTopic
    \/ Topic
    \/ Index

SpecService == InitService /\ [][NextService]_vars

(* ------------------------------------------------------------------ *)
(* Properties                                                         *)
(* ------------------------------------------------------------------ *)

Done(i) == requests[i].stage = "done"
TopicRequest(i) == requests[i].method = "POST"
Answered(i) == TopicRequest(i) /\ Done(i) /\ requests[i].result.raised = ""

\* C1: for every text the service handles, the tokens the topic handler
\* computes are the tokens the build's WikiCorpus computes for the same text.
C1_SameTokenization ==
    \A i \in 1..Len(requests) :
        Answered(i) =>
            requests[i].result.doc = WikiCorpusTokens(requests[i].result.text.chars, has_pattern)

\* The word-to-id mapping as filter_extremes leaves it.
FrozenVocabulary ==
    filter_extremes(ScanDump(dump, has_pattern, EmptyDictionary),
                    no_below, no_above_percent, DEFAULT_DICT_SIZE).token2id

AfterFilterPcs ==
    {"scan_titles", "dump_docmap", "serialize_bow", "serialize_bow_meta", "serialize_bow_index",
     "save_dict", "load_dict", "save_wiki", "open_mm", "fit_tfidf", "save_tfidf",
     "serialize_tfidf", "serialize_tfidf_index", "fit_lda", "save_lda_state",
     "save_lda_id2word", "save_lda", "build_index", "save_index", "finish", "done", "failed"}

EncodedWith(corpus, vocabulary) ==
    /\ Len(corpus.docs) = Len(dump)
    /\ \A k \in 1..Len(dump) : corpus.docs[k].bow = doc2bow(vocabulary, get_texts[k])

\* C2: once filter_extremes has run, no later step of the build changes the
\* word-to-id mapping; the saved bag-of-words corpus is encoded with it, the
\* dictionary read back, the TF-IDF model and the LDA model carry it, and
\* the service that loads the artifacts encodes requests with it.
C2_VocabularyFrozen ==
    LET frozen == FrozenVocabulary
    IN  /\ (pc \in AfterFilterPcs /\ wiki # NoObject) => wiki.dictionary.token2id = frozen
        /\ (Len(argv) >= 3 /\ IsComplete(fs, BowPath)) => EncodedWith(fs[BowPath].content, frozen)
        /\ (Len(argv) >= 3 /\ IsComplete(fs, WordidsPath)) =>
               load_from_text(fs[WordidsPath].content).token2id = frozen
        /\ dictionary # NoObject => dictionary.token2id = frozen
        /\ mm # NoObject => EncodedWith(mm, frozen)
        /\ tfidf # NoObject => tfidf.id2word = frozen
        /\ lda # NoObject => lda.id2word = frozen
        /\ process = "up" =>
               /\ TopicService.id2word.token2id = frozen
               /\ TopicService.lda.id2word = frozen
               /\ EncodedWith(TopicService.corpus, frozen)

\* A finished build loaded by the service, whose vocabulary has two of the
\* three words of the dump, with ids that are not in the order of the
\* vocabulary file's rows.
C2_Witness ==
    /\ pc = "done"
    /\ process = "up"
    /\ Cardinality(DOMAIN TopicService.id2word.token2id) = 2
    /\ Cardinality(DOMAIN ScanDump(dump, has_pattern, EmptyDictionary).token2id) = 3
    /\ fs[WordidsPath].content.rows[1][1] > fs[WordidsPath].content.rows[2][1]

\* C3: when VOCABULARY_SIZE is given, the vocabulary the script saves has at
\* most that many entries.
C3_VocabularySizeRespected ==
    (Len(argv) > 3 /\ IsComplete(fs, WordidsPath)) =>
        Len(fs[WordidsPath].content.rows) <= argv[4]

\* C4: every file the run writes is at a path that starts with OUTPUT_PREFIX.
C4_OutputsKeyedByPrefix ==
    \A p \in DOMAIN fs : StartsWith(p, outp)

\* The directory a path's file lies in: the current directory for a bare
\* file name.
ContainingDirectory(path) == IF dirname(path) = <<>> THEN <<".">> ELSE dirname(path)

DirectoryExists(d) == d \in Directories \cup {<<".">>}

NothingProcessed == wiki = NoObject /\ fs = EmptyFn

\* C5: with fewer than two arguments the script prints the usage and exits
\* with code 1; with a missing output directory it exits with an error; in
\* both cases before the corpus is opened or a file written; and with an
\* existing output directory (a bare file name in the current directory
\* included) the run goes on to processing.  Runs killed from outside are
\* left aside.
C5_InvalidInvocationFailsFast ==
    pc \notin {"check_args", "killed"} =>
        /\ Len(argv) < 3 =>
               pc = "exited" /\ exit_code = 1 /\ console = "usage" /\ NothingProcessed
        /\ (Len(argv) >= 3 /\ ~DirectoryExists(ContainingDirectory(outp))) =>
               pc = "exited" /\ exit_code # 0 /\ console = "error" /\ NothingProcessed
        /\ (Len(argv) >= 3 /\ DirectoryExists(ContainingDirectory(outp))) => pc # "exited"

\* C6: a POST /topic whose body is not JSON, or not a JSON object, is
\* answered with a client error (4xx) without an exception escaping the
\* handler, and the service stays up.
C6_MalformedBodyIsClientError ==
    \A i \in 1..Len(requests) :
        (TopicRequest(i) /\ Done(i) /\ requests[i].body.json \in {"malformed", "array"}) =>
            /\ requests[i].result.raised = ""
            /\ requests[i].result.response.status \in 400..499
            /\ process = "up"

EmptyTextBody(i) ==
    /\ requests[i].body.json = "object"
    /\ "text" \in DOMAIN requests[i].body.object
    /\ requests[i].body.object["text"] = JsonString(<<>>)

MissingTextBody(i) ==
    /\ requests[i].body.json = "object"
    /\ "text" \notin DOMAIN requests[i].body.object

\* C7: a POST /topic whose JSON object has "text" = "" or no "text" key is
\* answered 200 with {"data": []}; the missing key is handled as text = "".
C7_EmptyTextGivesEmptyData ==
    \A i \in 1..Len(requests) :
        (TopicRequest(i) /\ Done(i) /\ (EmptyTextBody(i) \/ MissingTextBody(i))) =>
            /\ requests[i].result.raised = ""
            /\ requests[i].result.text = JsonString(<<>>)
            /\ requests[i].result.response = [status |-> 200, data |-> <<>>]

\* A request without the key and one with the empty text, both answered.
C7_Witness ==
    \E i, j \in 1..Len(requests) :
        /\ TopicRequest(i) /\ Done(i) /\ MissingTextBody(i)
        /\ TopicRequest(j) /\ Done(j) /\ EmptyTextBody(j)

\* C8: the "data" of a successful POST /topic holds exactly the topics
\* inference returned (each once), by weight descending, each entry being
\* (topic_id, weight, the top words of that topic_id).
C8_DataIsSortedInference ==
    \A i \in 1..Len(requests) :
        Answered(i) =>
            LET data    == requests[i].result.response.data
                doc_lda == requests[i].result.doc_lda
                bow     == requests[i].result.bow
                before  == [requests[i].result.lda EXCEPT !.random_state = @ - 1]
            IN  /\ bow = doc2bow(TopicService.id2word.token2id,
                                 simple_tokenize(requests[i].result.text.chars))
                /\ doc_lda = lda_getitem(before, bow).doc_lda
                /\ Len(data) = Len(doc_lda)
                /\ \A j \in 1..Len(doc_lda) :
                       Cardinality({k \in 1..Len(data) :
                                       data[k][1] = doc_lda[j][1] /\ data[k][2] = doc_lda[j][2]}) = 1
                /\ \A k \in 1..(Len(data) - 1) : data[k][2] >= data[k + 1][2]
                /\ \A k \in 1..Len(data) :
                       data[k][3] = show_topic(TopicService.lda, data[k][1])

\* A request whose topics inference returned in ascending weight.
C8_Witness ==
    \E i \in 1..Len(requests) :
        /\ Answered(i)
        /\ Len(requests[i].result.doc_lda) >= 2
        /\ requests[i].result.doc_lda[1][2] < requests[i].result.doc_lda[2][2]
        /\ requests[i].result.response.data[1][1] = requests[i].result.doc_lda[2][1]

\* The class attributes as the import leaves them.
FreshlyLoaded ==
    [id2word |-> load_from_text(fs[WORDLIST_FILE].content),
     corpus  |-> fs[CORPUS_FILE].content,
     lda     |-> LdaModel_load(fs, LDA_FILE)]

\* C9: no handler step changes the loaded vocabulary, corpus or model, and
\* every POST /topic gets the response it would get alone against the
\* freshly loaded state.
C9_HandlersReadOnly ==
    process = "up" =>
        /\ TopicService = FreshlyLoaded
        /\ \A i \in 1..Len(requests) :
               (TopicRequest(i) /\ Done(i)) =>
                   requests[i].result.response = topic(FreshlyLoaded, requests[i].body).response

\* Every path the script writes (lines 93-123).
OutputPaths(prefix) ==
    { <<"doc_index.pickle.bz2">>, <<"wiki_index", ".0">> }
    \cup { prefix \o suffix : suffix \in
            { <<"_bow.mm">>, <<"_bow.mm", ".metadata.cpickle">>, <<"_bow.mm", ".index">>,
              <<"_wordids.txt.bz2">>, <<"_corpus.pkl.bz2">>, <<".tfidf_model">>,
              <<"_tfidf.mm">>, <<"_tfidf.mm", ".index">>, <<"_lda.model">>,
              <<"_lda.model", ".state">>, <<"_lda.model", ".id2word">>, <<"_index.index">> } }

IsTemporaryName(path) == path[Len(path)] \in {".tmp", ".part"}

\* The script writes a marker beside the file once the file is complete.
HasCompletionMarker(path) ==
    \E m \in {".done", ".complete", ".ok"} : path \o <<m>> \in OutputPaths(outp)

\* C10: at every point of a run, a file that is only partly written is under
\* a temporary name or is one the script marks when it is complete.
C10_NoPartialFileLooksComplete ==
    \A p \in DOMAIN fs :
        fs[p].state = "partial" => (IsTemporaryName(p) \/ HasCompletionMarker(p))

====
